---- MODULE Spec2Model ----
(***************************************************************************)
(* duckflix media-server: the byte-range content server of the threaded    *)
(* variant (src/main.py, Handler.send_movie_mkv / Handler.send_fileobj)    *)
(* and of the async variant (src/app.py, stream_movie /                    *)
(* PartialFileResponse.__call__), as one request handled from its arrival  *)
(* to the end of request handling.                                         *)
(*                                                                         *)
(* A Range header value is a sequence of tokens; its text is their         *)
(* concatenation.  The multi-character tokens ("bytes", "items", "Bytes")  *)
(* hold none of the characters the code splits on, so split, strip, `in`   *)
(* and int() act on tokens as they act on the text.                        *)
(* A file is its length: byte i of the file is identified by its offset i, *)
(* so a body chunk is an interval [off, off+len) of the file.              *)
(* A header value is its text on the wire; a decimal number is written as  *)
(* the integer it denotes.                                                 *)
(***************************************************************************)
EXTENDS Integers, Sequences, FiniteSets, TLC

\* ------------------------------------------------------------------ bounds

\* Longest run of free tokens after the unit prefix of a Range header.
MaxTailLen == 3

\* Largest file, in whole chunks of PartialFileResponse.chunk_size.
MaxChunks == 2

\* ------------------------------------------------------- program constants

\* PartialFileResponse.chunk_size
chunk_size == 4096

\* shutil.copyfileobj's buffer, and FileResponse.chunk_size (64 KiB each)
COPY_BUFSIZE == 65536

OK == 200
PARTIAL_CONTENT == 206
REQUESTED_RANGE_NOT_SATISFIABLE == 416
INTERNAL_SERVER_ERROR == 500

\* ------------------------------------------------------------ text helpers

Digits == {"0", "5"}

DigitVal(d) == IF d = "5" THEN 5 ELSE 0

\* s.count(tok)
Count(s, tok) == Cardinality({i \in 1..Len(s) : s[i] = tok})

\* tok in s
Contains(s, tok) == \E i \in 1..Len(s) : s[i] = tok

\* s.split(sep): the list of the parts between the separators
RECURSIVE Split(_, _)
Split(s, sep) ==
    IF ~Contains(s, sep) THEN <<s>>
    ELSE LET i == CHOOSE k \in 1..Len(s) :
                      s[k] = sep /\ \A j \in 1..(k-1) : s[j] # sep
         IN  <<SubSeq(s, 1, i-1)>> \o Split(SubSeq(s, i+1, Len(s)), sep)

\* s.strip(): leading and trailing whitespace removed
RECURSIVE Strip(_)
Strip(s) ==
    IF s = <<>> THEN s
    ELSE IF Head(s) = " " THEN Strip(Tail(s))
    ELSE IF s[Len(s)] = " " THEN Strip(SubSeq(s, 1, Len(s)-1))
    ELSE s

\* The value of a run of decimal digits (most significant first).
RECURSIVE Decimal(_)
Decimal(s) ==
    IF s = <<>> THEN 0
    ELSE 10 * Decimal(SubSeq(s, 1, Len(s)-1)) + DigitVal(s[Len(s)])

\* int(s): surrounding whitespace is ignored, then one or more decimal
\* digits; anything else raises ValueError.  (No sign can reach int() here:
\* "-" is split on, and "+" is not a token of the model.)
IntOk(s) ==
    LET t == Strip(s)
    IN  t # <<>> /\ \A i \in 1..Len(t) : t[i] \in Digits

IntVal(s) == Decimal(Strip(s))

\* ------------------------------------------------------- the Range grammar

\* The three ways the parsing statements can end.
Accept(start) == [kind |-> "accept", check |-> "", start |-> start]
Reject(check) == [kind |-> "reject", check |-> check, start |-> 0]
Raise(e)      == [kind |-> "raise", check |-> e, start |-> 0]

\* range_unit, request_range = request_range.split('='): the unpacking of
\* anything but two parts raises ValueError.
UnpackTwo(parts) == Len(parts) = 2

\* The try block around the two int() calls: either conversion failing is
\* caught (an empty side is not converted).
IntsConvert(range_start, range_end) ==
    /\ range_start # <<>> => IntOk(range_start)
    /\ range_end # <<>> => IntOk(range_end)

\* (faulty variant: the missing start not looked for before the end)
StartMissing_Never(range_start) == FALSE

\* range_start == '' after the conversion: only an unconverted, empty side
\* equals the empty string.
StartMissing(range_start) == range_start = <<>>

\* (faulty variant: `if range_end:` -- the converted end tested for truth, which an
\* end of 0 fails)
EndGiven_Truthy(range_end) == range_end # <<>> /\ IntVal(range_end) # 0

\* range_end != '' after the conversion: true of every converted integer,
\* zero included.
EndGiven(range_end) == range_end # <<>>

\* The parsing statements of a non-empty Range value, in the code's order:
\* unit, multi-range, split on '-', integers, missing start, given end.
ParseRange(value) ==
    LET has_eq == Contains(value, "=")
        parts  == Split(value, "=")
    IN  IF has_eq /\ ~UnpackTwo(parts) THEN Raise("ValueError")
        ELSE
        LET range_unit    == IF has_eq THEN parts[1] ELSE <<"bytes">>
            request_range == IF has_eq THEN parts[2] ELSE value
        IN  IF range_unit # <<"bytes">> THEN Reject("unit")
            ELSE IF Contains(request_range, ",") THEN Reject("multi")
            ELSE
            LET pair == Split(Strip(request_range), "-")
            IN  IF ~UnpackTwo(pair) THEN Raise("ValueError")
                ELSE IF ~IntsConvert(pair[1], pair[2]) THEN Reject("int")
                ELSE IF StartMissing(pair[1]) THEN Reject("start")
                ELSE IF EndGiven(pair[2]) THEN Reject("end")
                ELSE Accept(IntVal(pair[1]))

\* The 'detail' of the async variant's 416 JSON body, per failed check.
Detail(check) ==
    CASE check = "unit"  -> "non-bytes ranges are not supported"
      [] check = "multi" -> "multi-range not supported"
      [] check = "int"   -> "invalid int in range"
      [] check = "start" -> "range start required"
      [] check = "end"   -> "range end not supported"

\* The threaded variant's log_message before send_error(416), per check.
LogMessage(check) ==
    CASE check = "unit"  -> "unsupported range: non-bytes unit was specified"
      [] check = "multi" -> "unsupported range: multiple ranges were specified"
      [] check = "int"   -> "unsupported range: failed to convert ranges to integers"
      [] check = "start" -> "unsupported range: missing range-start"
      [] check = "end"   -> "unsupported range: range-end was specified"

\* ------------------------------------------------------------------ headers

NoHeaders == [k \in {} |-> ""]

\* str.lower() on the header names the two variants write.
Lower(name) ==
    CASE name = "Accept-Ranges"  -> "accept-ranges"
      [] name = "Accept-Range"   -> "accept-range"
      [] name = "Content-Range"  -> "content-range"
      [] name = "Content-Length" -> "content-length"
      [] name = "Content-Type"   -> "content-type"
      [] name = "Connection"     -> "connection"
      [] OTHER -> name

\* starlette's Response.init_headers: every name lower-cased.  The response
\* body is empty and Content-Length / Content-Type are given, so nothing is
\* added.
init_headers(h) ==
    [k \in {Lower(n) : n \in DOMAIN h} |->
        h[CHOOSE n \in DOMAIN h : Lower(n) = k]]

\* f'bytes {range_start}-{total_size-1}/{total_size}'
ContentRange(range_start, total) == <<"bytes", range_start, total - 1, total>>

\* (faulty variant: the length taken as last position minus first position)
ContentLength_OffByOne(range_start, total) == (total - 1) - range_start

\* str(total_size-range_start)
ContentLength(range_start, total) == total - range_start

\* (faulty variant: the seek to the range start left out, the file read
\* from its beginning)
RangeSeek_Forgotten(range_start) == 0

\* f.seek(range_start, SEEK_FROM_BEG): the position the ranged body is read
\* from.
RangeSeek(range_start) == range_start

\* Header names are case-insensitive on the wire.
HasHeader(h, name) == \E n \in DOMAIN h : Lower(n) = Lower(name)

HeaderValue(h, name) == h[CHOOSE n \in DOMAIN h : Lower(n) = Lower(name)]

\* ------------------------------------------------------------------- inputs

\* What a Range value may begin with: nothing, or a unit token and '='.
Prefixes ==
    { <<>>, <<"bytes", "=">>, <<"items", "=">>, <<"Bytes", "=">>,
      <<"bytes", " ", "=">> }

TailAlphabet == {"=", "-", ",", "0", "5", "x", " "}

Tails == UNION { [1..k -> TailAlphabet] : k \in 0..MaxTailLen }

\* The Range header: absent (headers.get('Range') is None), or a value.
NoRange == [present |-> FALSE, value |-> <<>>]

Ranges == {NoRange} \cup { [present |-> TRUE, value |-> p \o t] : p \in Prefixes, t \in Tails }

\* `if request_range:` -- None and the empty string are both false.
Truthy(r) == r.present /\ r.value # <<>>

\* File sizes: empty, a few bytes, the spec's 1000 bytes, around each multiple
\* of the async chunk size, and one byte more than the copy buffer.
Sizes ==
    {0, 5, 1000, COPY_BUFSIZE + 1}
        \cup { c * chunk_size + d : c \in 1..MaxChunks, d \in {0, 1} }

Min(a, b) == IF a < b THEN a ELSE b

\* (faulty variant: a read that comes back one byte short of what was
\* asked for)
ReadLen_Short(pos, total, n) == IF pos >= total THEN 0 ELSE Min(n - 1, total - pos)

\* What f.read(n) returns at position pos of a file of `total` bytes.
ReadLen(pos, total, n) == IF pos >= total THEN 0 ELSE Min(n, total - pos)

\* ------------------------------------------------------ library (Library.scan)

\* The *.mkv files rglob can find under the base directory.
Paths == {"a.mkv", "b.mkv", "c.mkv"}

\* One <Tag> of the tag XML: its Targets/TargetTypeValue and one Simple
\* with Name and String.
Tag(ttv, name, string) == [TargetTypeValue |-> ttv, Name |-> name, String |-> string]

\* Standard output of an extractor call: nothing, text that is no XML/JSON,
\* a tag tree, the bytes of the JSON document or of the image of file `of`.
Stdout(kind, root, of) == [kind |-> kind, root |-> root, of |-> of]

NoStdout == Stdout("empty", <<>>, "")

\* What `mkvextract <file> tags /dev/stdout` can answer: a non-zero exit,
\* nothing, malformed XML, a tree whose TMDB name sits under target 70
\* only, a tree giving movie/1, and one giving movie/2 after other tags.
TagsOutputs ==
    { [returncode |-> 1, stdout |-> NoStdout],
      [returncode |-> 0, stdout |-> NoStdout],
      [returncode |-> 0, stdout |-> Stdout("malformed", <<>>, "")],
      [returncode |-> 0, stdout |-> Stdout("xml", << Tag("70", "TMDB", "movie/1") >>, "")],
      [returncode |-> 0, stdout |-> Stdout("xml", << Tag("50", "TMDB", "movie/1") >>, "")],
      [returncode |-> 0, stdout |-> Stdout("xml", << Tag("70", "TMDB", "movie/1"),
                                                     Tag("50", "TITLE", "x"),
                                                     Tag("50", "TMDB", "movie/2") >>, "")] }

TagsOfMovie1 == [returncode |-> 0, stdout |-> Stdout("xml", << Tag("50", "TMDB", "movie/1") >>, "")]

\* An attachment of a file: its name, the exit status of extracting it and
\* the kind of bytes the extraction prints.
Attachment(filename, returncode, kind) ==
    [filename |-> filename, returncode |-> returncode, kind |-> kind]

\* The tmdb.json a file can carry: none, one that cannot be extracted, one
\* that is no JSON, a good one.
AttachTmdb ==
    { <<>>, << Attachment("tmdb.json", 1, "json") >>,
      << Attachment("tmdb.json", 0, "malformed") >>, << Attachment("tmdb.json", 0, "json") >> }

\* The cover.jpg a file can carry: none, one that cannot be extracted, a
\* good one.
AttachCover ==
    { <<>>, << Attachment("cover.jpg", 1, "jpeg") >>, << Attachment("cover.jpg", 0, "jpeg") >> }

Complete == << Attachment("tmdb.json", 0, "json"), Attachment("cover.jpg", 0, "jpeg") >>

\* Exit statuses of the first and of the second `mkvmerge --identify` call
\* on a file.  The threaded scan makes one call only.
Identifies(v) ==
    IF v = "async" THEN { <<0, 0>>, <<0, 1>>, <<1, 0>>, <<1, 1>> } ELSE { <<0, 0>>, <<1, 0>> }

\* The cover.jpg attachments that matter to the variant's scan.
Covers(v) == IF v = "async" THEN AttachCover ELSE { << Attachment("cover.jpg", 0, "jpeg") >> }

\* A file, as the extractor's answers about it.
File(tags, identify, attachments) ==
    [tags |-> tags, identify |-> identify, attachments |-> attachments]

\* The files a directory is made of: one of each tag output with a working
\* listing and both attachments; and for movie/1 a failing listing (with
\* and without a tmdb.json in the file), each kind of tmdb.json and each
\* kind of cover.jpg.
Files(v) ==
    { File(t, <<0, 0>>, Complete) : t \in TagsOutputs }
        \cup { File(TagsOfMovie1, i, Complete) : i \in Identifies(v) }
        \cup { File(TagsOfMovie1, <<i, 0>>, << Attachment("cover.jpg", 0, "jpeg") >>) : i \in {0, 1} }
        \cup { File(TagsOfMovie1, <<0, 0>>, a \o << Attachment("cover.jpg", 0, "jpeg") >>) : a \in AttachTmdb }
        \cup { File(TagsOfMovie1, <<0, 0>>, << Attachment("tmdb.json", 0, "json") >> \o c) : c \in Covers(v) }

\* The directories: the files found under some of the paths.
Directories(v) == UNION { [S -> Files(v)] : S \in SUBSET Paths }

\* rglob yields the paths in any order.
Orders(S) ==
    { o \in [1..Cardinality(S) -> S] : \A i, j \in 1..Cardinality(S) : o[i] = o[j] => i = j }

\* The descriptive document in a file's tmdb.json; the title tells the
\* files' documents apart.
Document(p) ==
    [title |-> p,
     genre_ids |-> IF p = "a.mkv" THEN <<5, 50>> ELSE IF p = "b.mkv" THEN <<0>> ELSE <<>>,
     original_language |-> IF p = "b.mkv" THEN "fr" ELSE "en"]

NoDocument == [title |-> "", genre_ids |-> <<>>, original_language |-> ""]

\* subprocess.run(['mkvextract', path, 'tags', '/dev/stdout'])
mkvextract_tags(f) == f.tags

\* subprocess.run(['mkvmerge', '--identify', path]), the n-th call: the
\* exit status, and a track line followed by a line per attachment.  `m`
\* is whether the line matches the attachment pattern.
mkvmerge_identify(f, n) ==
    [returncode |-> f.identify[n],
     stdout |-> << [m |-> FALSE, attachment_id |-> 0, filename |-> ""] >>
                \o [i \in 1..Len(f.attachments) |->
                        [m |-> TRUE, attachment_id |-> i, filename |-> f.attachments[i].filename]]]

\* subprocess.run(['mkvextract', '--quiet', path, 'attachments', id:/dev/stdout])
mkvextract_attachments(p, f, attachment_id) ==
    [returncode |-> f.attachments[attachment_id].returncode,
     stdout |-> IF f.attachments[attachment_id].returncode = 0
                THEN Stdout(f.attachments[attachment_id].kind, <<>>, p)
                ELSE NoStdout]

\* MKVTags.fromstring: the parse fails on anything but XML.
fromstring(s) == [ok |-> s.kind = "xml", root |-> s.root]

\* (faulty variant: the TargetTypeValue of the tag not looked at)
RECURSIVE tmdb_id_AnyTarget(_)
tmdb_id_AnyTarget(root) ==
    IF root = <<>> THEN [found |-> FALSE, text |-> ""]
    ELSE IF Head(root).Name = "TMDB"
         THEN [found |-> TRUE, text |-> Head(root).String]
         ELSE tmdb_id_AnyTarget(Tail(root))

\* MKVTags.tmdb_id: the String of the first tag with TargetTypeValue 50 and
\* Name TMDB; None when there is none.
RECURSIVE tmdb_id(_)
tmdb_id(root) ==
    IF root = <<>> THEN [found |-> FALSE, text |-> ""]
    ELSE IF Head(root).TargetTypeValue = "50" /\ Head(root).Name = "TMDB"
         THEN [found |-> TRUE, text |-> Head(root).String]
         ELSE tmdb_id(Tail(root))

\* `if not tmdb_id`: None, or an empty string.
NotTmdbId(id) == ~id.found \/ id.text = ""

\* json.load: the document, or JSONDecodeError.
json_load(s) ==
    IF s.kind = "json" THEN [ok |-> TRUE, value |-> Document(s.of)]
    ELSE [ok |-> FALSE, value |-> NoDocument]

\* A local variable of scan(): unbound until first assigned.
Unbound(v) == [bound |-> FALSE, value |-> v]
Bound(v) == [bound |-> TRUE, value |-> v]

\* `for line in ...: ... break ... else:` over the listing's lines: the
\* first attachment of the wanted name whose extraction exits with 0 ends
\* the loop with a break; without one the else branch runs.
RECURSIVE attachment_loop(_, _, _, _)
attachment_loop(p, f, lines, name) ==
    IF lines = <<>> THEN [how |-> "else", out |-> NoStdout]
    ELSE IF ~(Head(lines).m /\ Head(lines).filename = name)
         THEN attachment_loop(p, f, Tail(lines), name)
         ELSE LET r == mkvextract_attachments(p, f, Head(lines).attachment_id)
              IN  IF r.returncode = 0
                  THEN [how |-> "break", out |-> r.stdout]
                  ELSE attachment_loop(p, f, Tail(lines), name)

\* `identify_result = ...; if identify_result.returncode == 0: for ...`:
\* with a non-zero exit the block is not entered at all ("skip").
identify_block(p, f, n, name) ==
    IF mkvmerge_identify(f, n).returncode = 0
    THEN attachment_loop(p, f, mkvmerge_identify(f, n).stdout, name)
    ELSE [how |-> "skip", out |-> NoStdout]

NoMovies == [k \in {} |-> ""]

\* movies[k] = e
Put(m, k, e) == [x \in DOMAIN m \cup {k} |-> IF x = k THEN e ELSE m[x]]

\* The dict literal of the insertion.
Entry(v, p, id, details, cover) ==
    IF v = "async"
    THEN [path |-> p, tmdb |-> id, tmdb_details |-> details, cover_jpeg_data |-> cover]
    ELSE [path |-> p, tmdb |-> id, tmdb_details |-> details]

\* (faulty variant: a file is passed over when a local was never assigned)
insert_SkipUnbound(v, p, id, st) ==
    IF ~st.tmdb_details.bound \/ (v = "async" /\ ~st.cover_jpeg_data.bound)
    THEN st
    ELSE [st EXCEPT !.movies = Put(st.movies, id,
                        Entry(v, p, id, st.tmdb_details.value, st.cover_jpeg_data.value))]

\* `movies[tmdb_id] = {...}`: reading a local never assigned raises
\* UnboundLocalError.
insert(v, p, id, st) ==
    IF ~st.tmdb_details.bound \/ (v = "async" /\ ~st.cover_jpeg_data.bound)
    THEN [st EXCEPT !.exc = "UnboundLocalError"]
    ELSE [st EXCEPT !.movies = Put(st.movies, id,
                        Entry(v, p, id, st.tmdb_details.value, st.cover_jpeg_data.value))]

\* The cover.jpg block of the async scan and the insertion.
cover_and_insert(v, p, f, id, st) ==
    IF v # "async" THEN insert(v, p, id, st)
    ELSE LET c == identify_block(p, f, 2, "cover.jpg")
         IN  IF c.how = "else" THEN st
             ELSE IF c.how = "break"
                  THEN insert(v, p, id, [st EXCEPT !.cover_jpeg_data = Bound(c.out)])
                  ELSE insert(v, p, id, st)

\* The tmdb.json block and what follows it.
tmdb_and_rest(v, p, f, id, st) ==
    LET t == identify_block(p, f, 1, "tmdb.json")
    IN  IF t.how = "else" THEN st
        ELSE IF t.how = "break"
             THEN IF json_load(t.out).ok
                  THEN cover_and_insert(v, p, f, id,
                           [st EXCEPT !.tmdb_details = Bound(json_load(t.out).value)])
                  ELSE [st EXCEPT !.exc = "JSONDecodeError"]
             ELSE cover_and_insert(v, p, f, id, st)

\* The body of `for mkv_path in Path(base_dir).rglob('*.mkv')` for one
\* file: st holds the locals movies, tmdb_details, cover_jpeg_data and the
\* exception that has left the loop.
scan_file(v, p, f, st) ==
    IF mkvextract_tags(f).returncode # 0 THEN st
    ELSE IF mkvextract_tags(f).stdout.kind = "empty" THEN st
    ELSE IF ~fromstring(mkvextract_tags(f).stdout).ok THEN st
    ELSE IF NotTmdbId(tmdb_id(fromstring(mkvextract_tags(f).stdout).root)) THEN st
    ELSE tmdb_and_rest(v, p, f, tmdb_id(fromstring(mkvextract_tags(f).stdout).root).text, st)

RECURSIVE scan_loop(_, _, _, _)
scan_loop(v, dir, ord, st) ==
    IF ord = <<>> \/ st.exc # "none" THEN st
    ELSE scan_loop(v, dir, Tail(ord), scan_file(v, Head(ord), dir[Head(ord)], st))

\* Library.scan up to its last statement: the dict built from the files in
\* the order rglob gave them, or the exception that ended it.
scan_result(v, dir, ord) ==
    scan_loop(v, dir, ord,
              [movies |-> NoMovies, tmdb_details |-> Unbound(NoDocument),
               cover_jpeg_data |-> Unbound(NoStdout), exc |-> "none"])

\* -------------------------------------------------------------------- state

VARIABLES
    variant,        \* "threaded" (main.py) or "async" (app.py)
    method,         \* threaded: self.method; async: the method PartialFileResponse is built with
    range,          \* the request's Range header
    total_size,     \* the length of the movie's file
    background,     \* whether the response carries a background task
    pc,             \* where request handling stands
    f_open,         \* the request's file handle is open
    f_pos,          \* the handle's position
    opens,          \* how many times the request opened the file
    raw_headers,    \* async: the response object's headers
    status,         \* the status sent (0: none yet)
    headers,        \* the headers sent
    body,           \* the body chunks written, in order
    reason,         \* the reason given for a rejection (JSON detail, or log line)
    exc,            \* the exception that left the handler ("none": none)
    bg_ran,         \* the background task has run
    disconnected,   \* the client has gone away
    observed        \* the server has observed that (listener returned / write failed)

VARIABLES
    directory,      \* the files under the base directory, by path
    movies,         \* Library.movies, the live catalog
    order,          \* the order rglob gave the files in, in the scan that built movies
    scan_exc,       \* the exception that ended the last scan ("none": none)
    scanned,        \* a scan has completed: movies is what it built
    rescanned       \* a completed scan has been followed by another one

VARIABLES
    client_ip,      \* threaded: self.client_address[0]
    allowed_clients,\* threaded: the --allow-ip list
    path,           \* the request's path, as the route it matches and its groups
    qs,             \* the parsed query string
    reads,          \* what each read of Library.movies by the request saw
    extractor_calls,\* extractor processes run for the request
    payload         \* the JSON document sent (the index), in order

vars ==
    << variant, method, range, total_size, background, pc, f_open, f_pos, opens,
       raw_headers, status, headers, body, reason, exc, bg_ran, disconnected,
       observed, directory, movies, order, scan_exc, scanned, rescanned, client_ip,
       allowed_clients, path, qs, reads, extractor_calls, payload >>

library == << directory, movies, order, scan_exc, scanned, rescanned >>

serving == << client_ip, allowed_clients, path, qs, reads, extractor_calls, payload >>

request == << variant, method, range, total_size, background >>

response ==
    << pc, f_open, f_pos, opens, raw_headers, status, headers, body, reason, exc,
       bg_ran, disconnected, observed >>

\* The path of a request, as the route of serve() it matches and the
\* route's groups.
Path(route, movie_id, attachment_name) ==
    [route |-> route, movie_id |-> movie_id, attachment_name |-> attachment_name]

\* parse_qs: the values given for each parameter, none when it is absent.
Query(genre_id, original_language) ==
    [genre_id |-> genre_id, original_language |-> original_language]

\* A directory with one complete file for movie/1.
HomeDirectory == [p \in {"a.mkv"} |-> File(TagsOfMovie1, <<0, 0>>, Complete)]

\* The library after main() has scanned the home directory.
HomeLibrary ==
    /\ directory = HomeDirectory
    /\ movies = scan_result(variant, HomeDirectory, <<"a.mkv">>).movies
    /\ order = <<"a.mkv">>
    /\ scan_exc = "none"
    /\ scanned = TRUE
    /\ rescanned = FALSE

\* A download of movie/1 asked for by an allowed client; nothing done yet.
DownloadRequested ==
    /\ client_ip = "10.0.0.1"
    /\ allowed_clients = {"10.0.0.1"}
    /\ path = Path("download", "movie/1", "")
    /\ qs = Query(<<>>, <<>>)
    /\ reads = <<>>
    /\ extractor_calls = 0
    /\ payload = <<>>

\* Nothing sent, nothing open.
NothingDone ==
    /\ f_open = FALSE
    /\ f_pos = 0
    /\ opens = 0
    /\ raw_headers = NoHeaders
    /\ status = 0
    /\ headers = NoHeaders
    /\ body = <<>>
    /\ reason = ""
    /\ exc = "none"
    /\ bg_ran = FALSE
    /\ disconnected = FALSE
    /\ observed = FALSE

\* One body chunk: bytes [off, off+len) of the file, or a text the server
\* made up (src "detail": the 416 JSON body; "error": send_error's page).
FileChunk(off, len, more) == [src |-> "file", off |-> off, len |-> len, more_body |-> more]
TextChunk(src) == [src |-> src, off |-> 0, len |-> 1, more_body |-> FALSE]

\* A request has arrived and nothing has been done for it.  stream_movie
\* passes neither method nor background to PartialFileResponse: method
\* "HEAD" and a background task in the async variant are a
\* PartialFileResponse built with method='HEAD', with background=<task>.
\* The threaded variant and FileResponse are given no background task.
Init ==
    /\ variant \in {"threaded", "async"}
    /\ method \in {"GET", "HEAD"}
    /\ range \in Ranges
    /\ total_size \in Sizes
    /\ background \in BOOLEAN
    /\ background => (variant = "async" /\ Truthy(range))
    /\ (variant = "async" /\ method = "HEAD") => Truthy(range)
    /\ pc = "request"
    /\ NothingDone
    /\ HomeLibrary
    /\ DownloadRequested

\* -------------------------------------------------- threaded variant (main.py)

\* http.server's send_error(416): an HTML error page, the connection closed.
send_error_headers ==
    ("Content-Type" :> "text/html;charset=utf-8") @@ ("Connection" :> "close")

\* (faulty variant: the seek back from the end of the file forgotten)
NoRangeSeek_AtEnd(total) == total

\* The position send_fileobj seeks to when there is no Range header:
\* f.seek(0, SEEK_FROM_BEG), after the seek to the end that measured the file.
NoRangeSeek(total) == 0

\* The exceptions a write to a socket whose peer has gone away raises.
SocketWriteErrors == {"ConnectionResetError", "BrokenPipeError"}

\* except ConnectionResetError: the one exception the copy loop catches.
CopyCatches(e) == e = "ConnectionResetError"

\* Leaving `with path.open(mode='rb') as f:`, normally or by exception e,
\* closes the handle: the value of f_open afterwards.
with_exit(e) == FALSE

\* send_fileobj up to end_headers(): the outcome of the Range header.
\*   kind "raise":  an exception leaves the handler, nothing is sent
\*   kind "reject": send_error(416) after a log line naming the check
\*   kind "ok":     status and headers sent, the file positioned
\* (The echo of a request Origin as Access-Control-Allow-Origin, the same
\* for every method and Range value, is left out.)
send_fileobj_head(r, total, mime_type) ==
    IF Truthy(r) THEN
        LET p == ParseRange(r.value)
        IN  CASE p.kind = "raise" ->
                   [kind |-> "raise", status |-> 0, headers |-> NoHeaders,
                    reason |-> "", exc |-> p.check, pos |-> total]
              [] p.kind = "reject" ->
                   [kind |-> "reject",
                    status |-> REQUESTED_RANGE_NOT_SATISFIABLE,
                    headers |-> send_error_headers,
                    reason |-> LogMessage(p.check), exc |-> "none", pos |-> total]
              [] p.kind = "accept" ->
                   [kind |-> "ok", status |-> PARTIAL_CONTENT,
                    headers |->
                        ("Content-Range" :> ContentRange(p.start, total))
                        @@ ("Content-Length" :> ContentLength(p.start, total))
                        @@ ("Content-Type" :> mime_type)
                        @@ ("Accept-Ranges" :> "bytes"),
                    reason |-> "", exc |-> "none", pos |-> RangeSeek(p.start)]
    ELSE
        [kind |-> "ok", status |-> OK,
         headers |->
            ("Content-Length" :> total) @@ ("Content-Type" :> mime_type)
            @@ ("Accept-Ranges" :> "bytes"),
         reason |-> "", exc |-> "none", pos |-> NoRangeSeek(total)]

\* Handler.send_movie_mkv for a movie of the catalog: open the file, run
\* send_fileobj to the end of the headers; a GET whose headers went out goes
\* on to copy the body, every other outcome leaves the with block at once.
\* send_error writes its page unless the request is a HEAD.
send_movie_mkv ==
    /\ variant = "threaded"
    /\ pc = "request"
    /\ opens' = opens + 1
    /\ LET r == send_fileobj_head(range, total_size, "video/x-matroska")
       IN  /\ status' = r.status
           /\ headers' = r.headers
           /\ reason' = r.reason
           /\ exc' = r.exc
           /\ f_pos' = r.pos
           /\ body' = IF r.kind = "reject" /\ method # "HEAD"
                      THEN <<TextChunk("error")>> ELSE <<>>
           /\ IF r.kind = "ok" /\ method = "GET"
              THEN pc' = "copy" /\ f_open' = TRUE
              ELSE pc' = "done" /\ f_open' = with_exit(r.exc)
    /\ UNCHANGED << library, serving, request, raw_headers, bg_ran, disconnected, observed >>

\* One turn of shutil.copyfileobj(f, self.wfile): read a buffer; an empty
\* read ends the copy and the handler; otherwise write it.  A write to a
\* client that is still there succeeds; one to a client that has gone away
\* may still be taken by the kernel, or fails with one of SocketWriteErrors,
\* of which the handler catches ConnectionResetError alone.
copyfileobj ==
    /\ variant = "threaded"
    /\ pc = "copy"
    /\ LET n == ReadLen(f_pos, total_size, COPY_BUFSIZE)
       IN  \/ /\ n = 0
              /\ pc' = "done"
              /\ f_open' = with_exit("none")
              /\ UNCHANGED << f_pos, body, reason, exc, observed >>
           \/ /\ n > 0
              /\ f_pos' = f_pos + n
              /\ body' = Append(body, FileChunk(f_pos, n, FALSE))
              /\ UNCHANGED << pc, f_open, reason, exc, observed >>
           \/ /\ n > 0
              /\ disconnected
              /\ \E e \in SocketWriteErrors :
                    /\ exc' = IF CopyCatches(e) THEN "none" ELSE e
                    /\ reason' = IF CopyCatches(e) THEN "connection reset by peer" ELSE reason
                    /\ f_open' = with_exit(exc')
              /\ f_pos' = f_pos + n
              /\ observed' = TRUE
              /\ pc' = "done"
              /\ UNCHANGED body
    /\ UNCHANGED << library, serving, request, opens, raw_headers, status, headers, bg_ran, disconnected >>

\* The client goes away while the body is being streamed.
ClientDisconnect ==
    /\ pc \in {"copy", "stream_start", "stream_loop"}
    /\ ~disconnected
    /\ disconnected' = TRUE
    /\ UNCHANGED << library, serving, request, pc, f_open, f_pos, opens, raw_headers, status,
                    headers, body, reason, exc, bg_ran, observed >>

\* ------------------------------------------------------ async variant (app.py)

\* The headers stream_movie gives its FileResponse, with those FileResponse
\* sets from the file itself (its size, its guessed type; its
\* last-modified and etag are left out).
FileResponseHeaders(total) ==
    ("Accept-Range" :> "bytes") @@ ("Content-Length" :> total)
    @@ ("Content-Type" :> "video/x-matroska")

\* The chunks FileResponse sends of a file of `total` bytes from `pos`:
\* buffers of COPY_BUFSIZE, the last the first that is not full.
RECURSIVE FileResponseBody(_, _)
FileResponseBody(pos, total) ==
    LET n == ReadLen(pos, total, COPY_BUFSIZE)
    IN  IF n = COPY_BUFSIZE
        THEN <<FileChunk(pos, n, TRUE)>> \o FileResponseBody(pos + n, total)
        ELSE <<FileChunk(pos, n, FALSE)>>

\* self.send_header_only, as PartialFileResponse.__init__ sets it.
send_header_only == method = "HEAD"

\* (faulty variant: the handle closed by a plain f.close() after the block's body,
\* which an exception skips)
async_with_exit_leak(e) == e # "none"

\* Leaving `async with aiofiles.open(...) as f:`, normally or by exception
\* e, closes the handle: the value of f_open afterwards.
async_with_exit(e) == FALSE

\* finally: if self.background: await self.background() -- whatever e.
finally_background(has_background, e) == has_background

\* The headers PartialFileResponse sets for ranged content.
range_headers(range_start, total, media_type) ==
    ("Accept-Ranges" :> "bytes")
    @@ ("Content-Range" :> ContentRange(range_start, total))
    @@ ("Content-Length" :> ContentLength(range_start, total))
    @@ ("Content-Type" :> media_type)

\* stream_movie for a movie of the catalog: with a Range header, build the
\* PartialFileResponse, which the framework then calls; without, answer
\* with a FileResponse, which sends the whole file.
stream_movie ==
    /\ variant = "async"
    /\ pc = "request"
    /\ \/ /\ Truthy(range)
          /\ pc' = "call"
          /\ UNCHANGED << opens, status, headers, body >>
       \/ /\ ~Truthy(range)
          /\ pc' = "done"
          /\ opens' = opens + 1
          /\ status' = OK
          /\ headers' = init_headers(FileResponseHeaders(total_size))
          /\ body' = FileResponseBody(0, total_size)
    /\ UNCHANGED << library, serving, request, f_open, f_pos, raw_headers, reason, exc, bg_ran,
                    disconnected, observed >>

\* PartialFileResponse.__call__ up to run_until_first_complete: open the
\* file, parse the Range value.  A rejection sends the 416 start message and
\* its JSON body and returns; an exception leaves the call (the framework
\* answers 500); both leave the async with block and run the finally
\* clause.  Otherwise the file is positioned and the headers are set.
PartialFileResponse_call ==
    /\ variant = "async"
    /\ pc = "call"
    /\ opens' = opens + 1
    /\ LET p == ParseRange(range.value)
       IN  \/ /\ p.kind = "reject"
              /\ status' = REQUESTED_RANGE_NOT_SATISFIABLE
              /\ headers' = raw_headers
              /\ body' = <<TextChunk("detail")>>
              /\ reason' = Detail(p.check)
              /\ exc' = "none"
              /\ pc' = "done"
              /\ f_open' = async_with_exit("none")
              /\ bg_ran' = finally_background(background, "none")
              /\ UNCHANGED << f_pos, raw_headers >>
           \/ /\ p.kind = "raise"
              /\ exc' = p.check
              /\ status' = INTERNAL_SERVER_ERROR
              /\ body' = <<TextChunk("error")>>
              /\ pc' = "done"
              /\ f_open' = async_with_exit(p.check)
              /\ bg_ran' = finally_background(background, p.check)
              /\ UNCHANGED << f_pos, raw_headers, headers, reason >>
           \/ /\ p.kind = "accept"
              /\ f_pos' = RangeSeek(p.start)
              /\ raw_headers' = init_headers(range_headers(p.start, total_size, "video/matroska"))
              /\ f_open' = TRUE
              /\ pc' = "stream_start"
              /\ UNCHANGED << status, headers, body, reason, exc, bg_ran >>
    /\ UNCHANGED << library, serving, request, disconnected, observed >>

\* (faulty variant: the two tasks awaited to the end of both, as with
\* asyncio.gather)
run_until_first_complete_Both(listener_done, stream_done) ==
    listener_done /\ stream_done

\* starlette's run_until_first_complete over listen_for_disconnect and
\* stream_response: it returns, having cancelled the other task, as soon as
\* one of the two has returned.
run_until_first_complete(listener_done, stream_done) ==
    listener_done \/ stream_done

\* stream_response, first await: the http.response.start message.
stream_response_start ==
    /\ variant = "async"
    /\ pc = "stream_start"
    /\ status' = PARTIAL_CONTENT
    /\ headers' = raw_headers
    /\ pc' = "stream_loop"
    /\ UNCHANGED << library, serving, request, f_open, f_pos, opens, raw_headers, body, reason,
                    exc, bg_ran, disconnected, observed >>

\* stream_response, one turn of the loop: read a chunk and send it, with
\* more_body set while the chunk is full.  The first chunk that is not full
\* ends the loop: stream_response completes, run_until_first_complete
\* cancels the listener, the file is closed and the finally clause runs.
\* self.send_header_only is not read.
stream_response_chunk ==
    /\ variant = "async"
    /\ pc = "stream_loop"
    /\ LET n == ReadLen(f_pos, total_size, chunk_size)
           more_body == n = chunk_size
       IN  /\ body' = Append(body, FileChunk(f_pos, n, more_body))
           /\ f_pos' = f_pos + n
           /\ \/ /\ more_body
                 /\ UNCHANGED << pc, f_open, bg_ran >>
              \/ /\ ~more_body
                 /\ IF run_until_first_complete(observed, TRUE)
                    THEN /\ pc' = "done"
                         /\ f_open' = async_with_exit("none")
                         /\ bg_ran' = finally_background(background, "none")
                    ELSE /\ pc' = "stream_ended"
                         /\ UNCHANGED << f_open, bg_ran >>
    /\ UNCHANGED << library, serving, request, opens, raw_headers, status, headers, reason, exc,
                    disconnected, observed >>

\* listen_for_disconnect receives http.disconnect and returns:
\* run_until_first_complete cancels stream_response where it waits, the
\* file is closed and the finally clause runs.
listen_for_disconnect ==
    /\ variant = "async"
    /\ pc \in {"stream_start", "stream_loop", "stream_ended"}
    /\ disconnected
    /\ ~observed
    /\ observed' = TRUE
    /\ IF run_until_first_complete(TRUE, pc = "stream_ended")
       THEN /\ pc' = "done"
            /\ f_open' = async_with_exit("none")
            /\ bg_ran' = finally_background(background, "none")
       ELSE UNCHANGED << pc, f_open, bg_ran >>
    /\ UNCHANGED << library, serving, request, f_pos, opens, raw_headers, status, headers, body,
                    reason, exc, disconnected >>

\* ------------------------------------------------------------ specification

Next ==
    \/ send_movie_mkv
    \/ copyfileobj
    \/ stream_movie
    \/ PartialFileResponse_call
    \/ stream_response_start
    \/ stream_response_chunk
    \/ listen_for_disconnect
    \/ ClientDisconnect

Spec == Init /\ [][Next]_vars

\* The Range values of the ranged requests followed to their end: the unit
\* bytes and a short range, and a start beyond every small file.
RaceRanges ==
    { [present |-> TRUE, value |-> <<"bytes", "=">> \o t] :
        t \in { u \in Tails : Len(u) <= 2 } \cup { <<"5", "0", "-">> } }

\* A ranged download of the async variant, nothing done yet.
InitRace ==
    /\ variant = "async"
    /\ method \in {"GET", "HEAD"}
    /\ range \in RaceRanges
    /\ total_size \in Sizes
    /\ background \in BOOLEAN
    /\ pc = "request"
    /\ NothingDone
    /\ HomeLibrary
    /\ DownloadRequested

NextRace ==
    \/ stream_movie
    \/ PartialFileResponse_call
    \/ stream_response_start
    \/ stream_response_chunk
    \/ listen_for_disconnect
    \/ ClientDisconnect

\* The ranged download under the scheduling of the event loop: of the two
\* tasks run_until_first_complete creates, the one that is ready to run is
\* run.  The streaming task sends its next message (a read of a file
\* returns), and the listener is resumed once a disconnect message waits
\* for it.  Nothing makes the client disconnect.
SpecRace ==
    /\ InitRace
    /\ [][NextRace]_vars
    /\ WF_vars(stream_response_start)
    /\ WF_vars(stream_response_chunk)
    /\ WF_vars(listen_for_disconnect)

\* ------------------------------------------------------- scanning (SpecScan)

\* (faulty variant: the entries put into the live dict as they are built,
\* as with `self.movies[tmdb_id] = ...` in the loop)
self_movies_InPlace(r, live) == r.movies

\* `self.movies = movies`, the last statement of scan(): reached only when
\* no exception has left the loop; until then, and after an exception,
\* Library.movies is the dict it was.
self_movies(r, live) == IF r.exc = "none" THEN r.movies ELSE live

\* Library.scan: the files are gone through in the order rglob gives them;
\* the dict built replaces Library.movies in the last statement.  An
\* exception leaves scan() before that statement.
scan ==
    /\ \E o \in Orders(DOMAIN directory) :
          LET r == scan_result(variant, directory, o)
          IN  /\ scan_exc' = r.exc
              /\ movies' = self_movies(r, movies)
              /\ order' = IF r.exc = "none" THEN o ELSE order
              /\ scanned' = (scanned \/ r.exc = "none")
              /\ rescanned' = (rescanned \/ (scanned /\ r.exc = "none"))
    /\ UNCHANGED << directory, serving, request, response >>

\* The library has been constructed over some directory, nothing scanned
\* yet and no request being handled.
InitScan ==
    /\ variant \in {"threaded", "async"}
    /\ directory \in Directories(variant)
    /\ movies = NoMovies
    /\ order = <<>>
    /\ scan_exc = "none"
    /\ scanned = FALSE
    /\ rescanned = FALSE
    /\ method = "GET"
    /\ range = NoRange
    /\ total_size = 0
    /\ background = FALSE
    /\ pc = "idle"
    /\ NothingDone
    /\ DownloadRequested

NextScan == scan

SpecScan == InitScan /\ [][NextScan]_vars

\* -------------------------------------------------------- serving (SpecServe)

NOT_FOUND == 404
FORBIDDEN == 403

\* What the request leaves alone while it is routed.
untouched ==
    << request, client_ip, allowed_clients, path, qs, f_open, f_pos, opens,
       raw_headers, bg_ran, disconnected, observed >>

TagsOfMovie2 ==
    [returncode |-> 0, stdout |-> Stdout("xml", << Tag("70", "TMDB", "movie/1"),
                                                   Tag("50", "TITLE", "x"),
                                                   Tag("50", "TMDB", "movie/2") >>, "")]

\* The media directory while requests are served: two files, both movies
\* (the second one's listing failing when asked again), the same movie
\* twice, one movie and a file without tags, no movie at all.
ServeDirectories ==
    { ("a.mkv" :> File(TagsOfMovie1, <<0, 0>>, Complete))
        @@ ("b.mkv" :> File(TagsOfMovie2, <<0, 0>>, Complete)),
      ("a.mkv" :> File(TagsOfMovie1, <<0, 0>>, Complete))
        @@ ("b.mkv" :> File(TagsOfMovie1, <<0, 0>>, Complete)),
      ("a.mkv" :> File([returncode |-> 1, stdout |-> NoStdout], <<0, 0>>, Complete))
        @@ ("b.mkv" :> File(TagsOfMovie2, <<0, 0>>, Complete)),
      ("a.mkv" :> File([returncode |-> 1, stdout |-> NoStdout], <<0, 0>>, Complete))
        @@ ("b.mkv" :> File([returncode |-> 0, stdout |-> NoStdout], <<0, 0>>, Complete)) }

\* The identifiers asked for: two that files carry, one that none does.
MovieIds == {"movie/1", "movie/2", "movie/9"}

\* The paths asked for, by the route of serve() they match; "other"
\* matches none.  The async application declares its routes itself and has
\* one per attachment name.
ServePaths(v) ==
    { Path("genres", "", ""), Path("index", "", "") }
        \cup { Path("download", id, "") : id \in MovieIds }
        \cup { Path("attachment", id, n) : id \in MovieIds, n \in {"tmdb.json", "cover.jpg"} }
        \cup IF v = "threaded"
             THEN { Path("attachment", "movie/1", "nope.txt"), Path("other", "", "") }
             ELSE {}

\* The query strings of an index request: genre_id and original_language
\* given not at all, once, or twice; a genre_id may be no number.
Queries ==
    { Query(g, l) :
        g \in { <<>>, << <<"5">> >>, << <<"0">>, <<"5", "0">> >>, << <<"5">>, <<"x">> >> },
        l \in { <<>>, <<"en">>, <<"fr", "de">> } }

\* The Range headers of the requests.
ServeRanges ==
    { NoRange,
      [present |-> TRUE, value |-> <<"bytes", "=", "0", "-">>],
      [present |-> TRUE, value |-> <<"bytes", "=", "0", "-", "5">>] }

\* A request has arrived at a server whose catalog was built by a scan of
\* the media directory as it was then (the files may have been tagged anew
\* since).  The async application has no allow-list and its routes answer
\* GET.
InitServe ==
    /\ variant \in {"threaded", "async"}
    /\ method \in {"GET", "HEAD"}
    /\ variant = "async" => method = "GET"
    /\ range \in ServeRanges
    /\ total_size = 5
    /\ background = FALSE
    /\ pc = "serve"
    /\ NothingDone
    /\ directory \in ServeDirectories
    /\ \E d \in ServeDirectories : \E o \in Orders(DOMAIN d) :
          /\ scan_result(variant, d, o).exc = "none"
          /\ movies = scan_result(variant, d, o).movies
          /\ order = o
    /\ scan_exc = "none"
    /\ scanned = TRUE
    /\ rescanned = FALSE
    /\ client_ip \in {"10.0.0.1", "10.0.0.2"}
    /\ allowed_clients \in { {}, {"10.0.0.1"} }
    /\ variant = "async" => (client_ip = "10.0.0.1" /\ allowed_clients = {})
    /\ path \in ServePaths(variant)
    /\ qs \in Queries
    /\ path.route # "index" => qs = Query(<<>>, <<>>)
    /\ reads = <<>>
    /\ extractor_calls = 0
    /\ payload = <<>>

\* self.send_error(code) of http.server: status, the error page (not for a
\* HEAD), the connection closed.  `why` is the message logged.
SendError(code, why) ==
    /\ status' = code
    /\ headers' = send_error_headers
    /\ body' = IF method = "HEAD" THEN <<>> ELSE <<TextChunk("error")>>
    /\ reason' = why
    /\ pc' = "done"

\* No response yet: the handler goes on at `next`.
GoOn(next) ==
    /\ pc' = next
    /\ UNCHANGED << status, headers, body, reason >>

\* An exception leaves the handler: nothing is sent.
Dies(next) ==
    /\ pc' = next
    /\ UNCHANGED << status, headers, body, reason >>

\* self.send_fileobj(io.BytesIO(...), mime_type): the Range header is
\* treated as for a file; the bytes of a GET are written in one copy.
SendBytes(src, mime_type) ==
    LET r == send_fileobj_head(range, total_size, mime_type)
    IN  /\ status' = r.status
        /\ headers' = r.headers
        /\ reason' = r.reason
        /\ body' = IF r.kind = "ok" /\ method = "GET" THEN <<TextChunk(src)>>
                   ELSE IF r.kind = "reject" /\ method # "HEAD" THEN <<TextChunk("error")>>
                   ELSE <<>>
        /\ pc' = "done"

\* (faulty variant: an empty allow-list taken to allow every client)
Allowed_EmptyAllowsAll(ip, clients) == clients = {} \/ ip \in clients

\* `client_ip not in self.allowed_clients`, negated.
Allowed(ip, clients) == ip \in clients

\* Handler.serve: the allow-list is tested before anything else, then the
\* path is matched against the routes in turn.
serve ==
    /\ variant = "threaded"
    /\ pc = "serve"
    /\ IF ~Allowed(client_ip, allowed_clients)
       THEN SendError(FORBIDDEN, "client not allowed")
       ELSE CASE path.route = "genres" -> GoOn("send_movie_genres_index")
              [] path.route = "index" -> GoOn("send_movies_index")
              [] path.route = "download" -> GoOn("send_movie_mkv")
              [] path.route = "attachment" -> GoOn("send_movie_attachment")
              [] OTHER -> SendError(FORBIDDEN, "Forbidden")
    /\ UNCHANGED << library, untouched, exc, reads, extractor_calls, payload >>

\* Handler.send_movie_genres_index: a fixed list, nothing of the catalog.
send_movie_genres_index ==
    /\ variant = "threaded"
    /\ pc = "send_movie_genres_index"
    /\ SendBytes("genres", "application/json")
    /\ exc' = send_fileobj_head(range, total_size, "application/json").exc
    /\ UNCHANGED << library, untouched, reads, extractor_calls, payload >>

\* [int(genre_id) for genre_id in self.parsed_qs['genre_id']]
AllInts(values) == \A i \in 1..Len(values) : IntOk(values[i])

\* `for genre_id in movie_genre_ids: if genre_id in allowed_genre_ids:
\* break / else: continue`: some genre of the movie is among those given.
genre_matches(movie_genre_ids, given) ==
    \E i \in 1..Len(movie_genre_ids) : \E j \in 1..Len(given) :
        movie_genre_ids[i] = IntVal(given[j])

\* `library_entry[...]['original_language'] not in allowed`, negated.
language_matches(original_language, given) ==
    \E j \in 1..Len(given) : given[j] = original_language

\* The loop body of send_movies_index for one entry: whether it is
\* appended to the index.
included(library_entry, q) ==
    /\ q.genre_id # <<>> => genre_matches(library_entry.tmdb_details.genre_ids, q.genre_id)
    /\ q.original_language # <<>> =>
          language_matches(library_entry.tmdb_details.original_language, q.original_language)

\* The list send_movies_index builds: the tmdb_details of the entries of
\* the dict m that the filters let pass, in the order `keys` of the dict.
RECURSIVE movies_index(_, _, _)
movies_index(m, keys, q) ==
    IF keys = <<>> THEN <<>>
    ELSE (IF included(m[Head(keys)], q) THEN << m[Head(keys)].tmdb_details >> ELSE <<>>)
         \o movies_index(m, Tail(keys), q)

\* Handler.send_movies_index: one pass over self.library.movies.values()
\* (in the dict's order, whatever it is); int() of a genre_id that is no
\* number raises ValueError as soon as there is an entry to test.
send_movies_index ==
    /\ variant = "threaded"
    /\ pc = "send_movies_index"
    /\ reads' = Append(reads, movies)
    /\ IF qs.genre_id # <<>> /\ ~AllInts(qs.genre_id) /\ DOMAIN movies # {}
       THEN /\ exc' = "ValueError"
            /\ Dies("done")
            /\ UNCHANGED payload
       ELSE /\ exc' = send_fileobj_head(range, total_size, "application/json").exc
            /\ SendBytes("json", "application/json")
            /\ \E keys \in Orders(DOMAIN movies) :
                  payload' = IF body' = <<TextChunk("json")>>
                             THEN movies_index(movies, keys, qs) ELSE <<>>
    /\ UNCHANGED << library, untouched, extractor_calls >>

\* Handler.send_movie_mkv, its first statement: the membership test.
send_movie_mkv_test ==
    /\ variant = "threaded"
    /\ pc = "send_movie_mkv"
    /\ reads' = Append(reads, movies)
    /\ IF path.movie_id \notin DOMAIN movies
       THEN SendError(NOT_FOUND, "Not Found")
       ELSE GoOn("send_movie_mkv_path")
    /\ UNCHANGED << library, untouched, exc, extractor_calls, payload >>

\* (faulty variant: the entry taken out of the catalog by the lookup, as
\* with self.library.movies.pop(movie_id))
send_movie_mkv_path_Pop ==
    /\ variant = "threaded"
    /\ pc = "send_movie_mkv_path"
    /\ reads' = Append(reads, movies)
    /\ IF path.movie_id \notin DOMAIN movies
       THEN exc' = "KeyError" /\ Dies("done") /\ movies' = movies
       ELSE /\ exc' = exc
            /\ GoOn("request")
            /\ movies' = [k \in DOMAIN movies \ {path.movie_id} |-> movies[k]]
    /\ UNCHANGED << directory, order, scan_exc, scanned, rescanned, untouched,
                    extractor_calls, payload >>

\* Handler.send_movie_mkv, `path = self.library.movies[movie_id]['path']`:
\* a second read of the catalog; the file is opened next.
send_movie_mkv_path ==
    /\ variant = "threaded"
    /\ pc = "send_movie_mkv_path"
    /\ reads' = Append(reads, movies)
    /\ IF path.movie_id \notin DOMAIN movies
       THEN exc' = "KeyError" /\ Dies("done")
       ELSE exc' = exc /\ GoOn("request")
    /\ UNCHANGED << library, untouched, extractor_calls, payload >>

\* Handler.send_movie_attachment, its first statement: the membership test.
send_movie_attachment_test ==
    /\ variant = "threaded"
    /\ pc = "send_movie_attachment"
    /\ reads' = Append(reads, movies)
    /\ IF path.movie_id \notin DOMAIN movies
       THEN SendError(NOT_FOUND, "Not Found")
       ELSE GoOn("send_movie_attachment_path")
    /\ UNCHANGED << library, untouched, exc, extractor_calls, payload >>

\* The first line of the listing that names the attachment, 0 if none.
RECURSIVE find_attachment(_, _)
find_attachment(lines, name) ==
    IF lines = <<>> THEN 0
    ELSE IF Head(lines).m /\ Head(lines).filename = name THEN Head(lines).attachment_id
    ELSE find_attachment(Tail(lines), name)

\* Handler.send_movie_attachment from the second read of the catalog on:
\* the listing call (500 on a non-zero exit), the search for the name
\* (404), the extraction (500 on a non-zero exit), send_fileobj.
send_movie_attachment ==
    /\ variant = "threaded"
    /\ pc = "send_movie_attachment_path"
    /\ reads' = Append(reads, movies)
    /\ IF path.movie_id \notin DOMAIN movies
       THEN /\ exc' = "KeyError"
            /\ Dies("done")
            /\ UNCHANGED extractor_calls
       ELSE LET f == directory[movies[path.movie_id].path]
                identify_result == mkvmerge_identify(f, 2)
                attachment_id == find_attachment(identify_result.stdout, path.attachment_name)
            IN  IF identify_result.returncode # 0
                THEN /\ SendError(INTERNAL_SERVER_ERROR, "Internal Server Error")
                     /\ extractor_calls' = extractor_calls + 1
                     /\ exc' = exc
                ELSE IF attachment_id = 0
                THEN /\ SendError(NOT_FOUND, "Not Found")
                     /\ extractor_calls' = extractor_calls + 1
                     /\ exc' = exc
                ELSE IF mkvextract_attachments(movies[path.movie_id].path, f, attachment_id).returncode # 0
                THEN /\ SendError(INTERNAL_SERVER_ERROR, "Internal Server Error")
                     /\ extractor_calls' = extractor_calls + 2
                     /\ exc' = exc
                ELSE /\ SendBytes("attachment", "application/octet-stream")
                     /\ extractor_calls' = extractor_calls + 2
                     /\ exc' = send_fileobj_head(range, total_size, "application/octet-stream").exc
    /\ UNCHANGED << library, untouched, payload >>

\* (faulty variant: the detail without the identifier)
NotFoundDetail_Generic(id) == "Not Found"

\* f'{tmdb_id} not found'
NotFoundDetail(id) ==
    CASE id = "movie/1" -> "movie/1 not found"
      [] id = "movie/2" -> "movie/2 not found"
      [] id = "movie/9" -> "movie/9 not found"

\* raise HTTPException(status_code=404, detail=...): a JSON body with the
\* detail.
HTTPException(code, detail) ==
    /\ status' = code
    /\ headers' = init_headers("Content-Type" :> "application/json")
    /\ body' = <<TextChunk("detail")>>
    /\ reason' = detail
    /\ pc' = "done"

\* A response the framework builds from what the route returns.
Returns(src, mime_type) ==
    /\ status' = OK
    /\ headers' = init_headers("Content-Type" :> mime_type)
    /\ body' = <<TextChunk(src)>>
    /\ reason' = ""
    /\ pc' = "done"

\* movie_genre_list: a fixed list.
movie_genre_list ==
    /\ variant = "async"
    /\ pc = "serve"
    /\ path.route = "genres"
    /\ Returns("genres", "application/json")
    /\ UNCHANGED << library, untouched, exc, reads, extractor_calls, payload >>

RECURSIVE tmdb_list(_, _)
tmdb_list(m, keys) ==
    IF keys = <<>> THEN <<>> ELSE << m[Head(keys)].tmdb >> \o tmdb_list(m, Tail(keys))

\* movies_list: the identifiers of the catalog's entries.
movies_list ==
    /\ variant = "async"
    /\ pc = "serve"
    /\ path.route = "index"
    /\ reads' = Append(reads, movies)
    /\ \E keys \in Orders(DOMAIN movies) : payload' = tmdb_list(movies, keys)
    /\ Returns("json", "application/json")
    /\ UNCHANGED << library, untouched, exc, extractor_calls >>

\* `try: movie = app.media.movies[tmdb_id] / except KeyError: raise
\* HTTPException(404, detail=f'{tmdb_id} not found')`: one read of the
\* catalog.
Lookup(then) ==
    /\ reads' = Append(reads, movies)
    /\ IF path.movie_id \notin DOMAIN movies
       THEN HTTPException(NOT_FOUND, NotFoundDetail(path.movie_id))
       ELSE then

\* movie_cover: the entry's cover image, kept since the scan.
movie_cover ==
    /\ variant = "async"
    /\ pc = "serve"
    /\ path.route = "attachment"
    /\ path.attachment_name = "cover.jpg"
    /\ Lookup(Returns("attachment", "image/jpeg"))
    /\ UNCHANGED << library, untouched, exc, extractor_calls, payload >>

\* movie_tmdb_details: the entry's document, serialised again.
movie_tmdb_details ==
    /\ variant = "async"
    /\ pc = "serve"
    /\ path.route = "attachment"
    /\ path.attachment_name = "tmdb.json"
    /\ Lookup(Returns("attachment", "application/json"))
    /\ UNCHANGED << library, untouched, exc, extractor_calls, payload >>

\* stream_movie, its lookup of the movie; the response is built next.
stream_movie_lookup ==
    /\ variant = "async"
    /\ pc = "serve"
    /\ path.route = "download"
    /\ Lookup(GoOn("request"))
    /\ UNCHANGED << library, untouched, exc, extractor_calls, payload >>

NextServe ==
    \/ serve
    \/ send_movie_genres_index
    \/ send_movies_index
    \/ send_movie_mkv_test
    \/ send_movie_mkv_path
    \/ send_movie_attachment_test
    \/ send_movie_attachment
    \/ movie_genre_list
    \/ movies_list
    \/ movie_cover
    \/ movie_tmdb_details
    \/ stream_movie_lookup
    \/ scan
    \/ Next

SpecServe == InitServe /\ [][NextServe]_vars

\* =================================================================== claims

\* The body chunks are bytes of the file, in file order from `pos` on.
RECURSIVE Contiguous(_, _)
Contiguous(b, pos) ==
    \/ b = <<>>
    \/ /\ Head(b).src = "file"
       /\ Head(b).off = pos
       /\ Contiguous(Tail(b), pos + Head(b).len)

RECURSIVE BodyLen(_)
BodyLen(b) == IF b = <<>> THEN 0 ELSE Head(b).len + BodyLen(Tail(b))

NoFileBytes(b) == \A i \in 1..Len(b) : b[i].src # "file"

AllDigits(s) == s # <<>> /\ \A i \in 1..Len(s) : s[i] \in Digits

\* ------------------------------------------------------------------- C1

\* The value is bytes=<start>- with <start> a run of decimal digits.
IsOpenRange(v) ==
    /\ Len(v) >= 4
    /\ v[1] = "bytes" /\ v[2] = "=" /\ v[Len(v)] = "-"
    /\ AllDigits(SubSeq(v, 3, Len(v) - 1))

OpenStart(v) == Decimal(SubSeq(v, 3, Len(v) - 1))

C1_Case ==
    /\ range.present
    /\ IsOpenRange(range.value)
    /\ OpenStart(range.value) < total_size

\* C1: for a Range header bytes=<start>- with 0 <= start < T, both variants
\* answer 206 with Content-Range 'bytes <start>-<T-1>/<T>' and
\* Content-Length T-start: no other status is ever sent, the two headers of
\* a 206 are those, and request handling ends with the 206 sent (in the
\* async variant unless the disconnect was observed before the start
\* message).
C1_OpenRangeAnswered206 ==
    C1_Case =>
        /\ status \in {0, PARTIAL_CONTENT}
        /\ status = PARTIAL_CONTENT =>
              /\ HasHeader(headers, "Content-Range")
              /\ HeaderValue(headers, "Content-Range")
                    = <<"bytes", OpenStart(range.value), total_size - 1, total_size>>
              /\ HasHeader(headers, "Content-Length")
              /\ HeaderValue(headers, "Content-Length")
                    = total_size - OpenStart(range.value)
        /\ (pc \in {"copy", "stream_loop"}) => status = PARTIAL_CONTENT
        /\ (pc = "done" /\ ~(variant = "async" /\ observed)) => status = PARTIAL_CONTENT

\* bytes=50- on the 1000-byte file, answered by the async variant.
C1_Witness ==
    /\ variant = "async"
    /\ range = [present |-> TRUE, value |-> <<"bytes", "=", "5", "0", "-">>]
    /\ total_size = 1000
    /\ pc = "done"
    /\ status = PARTIAL_CONTENT
    /\ HeaderValue(headers, "Content-Length") = 950

\* ------------------------------------------------------------------- C2

\* C2 (as claimed): a Range value with no '-' at all, with more than one '-'
\* or with more than one '=' always ends in a 416, never in an exception, a
\* 500, a 200/206 or no response.
C2_GrammarViolationsAnswered416 ==
    ( /\ pc = "done"
      /\ Truthy(range)
      /\ \/ Count(range.value, "-") # 1
         \/ Count(range.value, "=") > 1 )
    => /\ status = REQUESTED_RANGE_NOT_SATISFIABLE
       /\ exc = "none"

\* ------------------------------------------------------------------- C3

\* The value is bytes=<start>-<end>, both runs of decimal digits.
IsBoundedRange(v) ==
    /\ Len(v) >= 5
    /\ v[1] = "bytes" /\ v[2] = "="
    /\ \E i \in 4..(Len(v) - 1) :
          /\ v[i] = "-"
          /\ AllDigits(SubSeq(v, 3, i - 1))
          /\ AllDigits(SubSeq(v, i + 1, Len(v)))

C3_Case == range.present /\ IsBoundedRange(range.value)

C4_NonBytesUnitRejected ==
    ( /\ pc = "done"
      /\ range.present
      /\ Contains(range.value, "=")
      /\ Split(range.value, "=")[1] # <<"bytes">> )
    => /\ status = REQUESTED_RANGE_NOT_SATISFIABLE
       /\ reason \in {Detail("unit"), LogMessage("unit")}

\* ------------------------------------------------------------------- C5

\* C5 (as claimed): a value with unit 'bytes' whose range part (what follows
\* 'bytes=') holds a comma is rejected 416 with the multi-range reason, and
\* no range is served.
C5_MultiRangeRejected ==
    ( /\ pc = "done"
      /\ range.present
      /\ Len(range.value) >= 2
      /\ range.value[1] = "bytes" /\ range.value[2] = "="
      /\ Contains(SubSeq(range.value, 3, Len(range.value)), ",") )
    => /\ status = REQUESTED_RANGE_NOT_SATISFIABLE
       /\ reason \in {Detail("multi"), LogMessage("multi")}
       /\ NoFileBytes(body)

\* ------------------------------------------------------------------- C6

C6_Case == ~range.present /\ method = "GET"

\* C6: a GET with no Range header is answered 200 with Content-Length T; the
\* body written is bytes of the file in order from offset 0, and all T of
\* them when the client has not disconnected.
C6_FullContent ==
    C6_Case =>
        /\ status \in {0, OK}
        /\ pc # "request" => status = OK
        /\ status = OK =>
              /\ HasHeader(headers, "Content-Length")
              /\ HeaderValue(headers, "Content-Length") = total_size
        /\ Contiguous(body, 0)
        /\ (pc = "done" /\ ~disconnected) => BodyLen(body) = total_size

\* The threaded variant has copied a file of more than one buffer.
C6_Witness ==
    /\ C6_Case
    /\ variant = "threaded"
    /\ total_size = COPY_BUFSIZE + 1
    /\ pc = "done"
    /\ Len(body) = 2
    /\ BodyLen(body) = total_size

\* ------------------------------------------------------------------- C7

\* C7 (as claimed): every 200 and every 206 carries Accept-Ranges: bytes.
C7_AcceptRangesSent ==
    status \in {OK, PARTIAL_CONTENT} =>
        /\ HasHeader(headers, "Accept-Ranges")
        /\ HeaderValue(headers, "Accept-Ranges") = "bytes"

\* ------------------------------------------------------------------- C8

\* The status a GET of the same resource with the same Range header gets.
StatusOfGet ==
    IF ~Truthy(range) THEN OK
    ELSE LET p == ParseRange(range.value)
         IN  CASE p.kind = "accept" -> PARTIAL_CONTENT
               [] p.kind = "reject" -> REQUESTED_RANGE_NOT_SATISFIABLE
               [] p.kind = "raise"  -> INTERNAL_SERVER_ERROR

\* C8 (as claimed): a HEAD gets the status of the corresponding GET and no
\* body bytes are written for it.
C8_HeadWritesNoBody ==
    method = "HEAD" =>
        /\ body = <<>>
        /\ status # 0 => status = StatusOfGet

\* ------------------------------------------------------------------- C9

\* C9 (as claimed): a request whose client's disconnect was observed ends
\* without raising an error.
C9_DisconnectRaisesNothing ==
    (pc = "done" /\ observed) => exc = "none"

\* ------------------------------------------------------------------ C10

\* C10: when the handling of a request that opened its file has ended --
\* stream completed, 416, disconnect or exception -- the handle is closed
\* and the background task, if there is one, has run.
C10_ReleasedOnEveryExit ==
    (pc = "done" /\ opens > 0) =>
        /\ ~f_open
        /\ background => bg_ran

\* The async variant left by the ValueError of a header with two '-'.
C10_Witness ==
    /\ variant = "async"
    /\ background
    /\ pc = "done"
    /\ opens = 1
    /\ exc = "ValueError"
    /\ ~f_open
    /\ bg_ran

\* ------------------------------------------------------------------ C11

\* The offset the body of a 200 or 206 starts at: 0 without a Range header,
\* the start the 206's Content-Range names with one.
StartOffset ==
    IF status = PARTIAL_CONTENT THEN HeaderValue(headers, "Content-Range")[2] ELSE 0

\* The bytes of the file from offset `start` to its end.
Remaining(start) == IF start >= total_size THEN 0 ELSE total_size - start

\* The stream of a 200 or 206 has completed: the handler has ended, the
\* method streams a body, and no disconnect or exception cut it short.
StreamCompleted ==
    /\ pc = "done"
    /\ status \in {OK, PARTIAL_CONTENT}
    /\ variant = "threaded" => method = "GET"
    /\ ~observed
    /\ exc = "none"

\* C11: within a 200 or 206 response the chunks written so far are bytes of
\* the file in file order from the start offset on (a prefix of the file
\* from there), and a stream that completes without disconnect has written
\* exactly the bytes from the start offset to the end of the file.
C11_BodyIsFilePrefix ==
    status \in {OK, PARTIAL_CONTENT} =>
        /\ Contiguous(body, StartOffset)
        /\ BodyLen(body) <= Remaining(StartOffset)
        /\ StreamCompleted => BodyLen(body) = Remaining(StartOffset)

\* bytes=5- on a file of two async chunks and a byte: the 8188 bytes from
\* offset 5 on are sent as a full chunk and a shorter last one.
C11_Witness ==
    /\ variant = "async"
    /\ range = [present |-> TRUE, value |-> <<"bytes", "=", "5", "-">>]
    /\ total_size = 2 * chunk_size + 1
    /\ StreamCompleted
    /\ Len(body) = 2
    /\ body[1].off = 5
    /\ BodyLen(body) = total_size - 5

\* ------------------------------------------------------------------ C12

\* The file's tag extraction fails (non-zero exit, empty output, XML that
\* does not parse), or its tags hold no TMDB String under a
\* TargetTypeValue of 50.
NoIdentifier(f) ==
    \/ f.tags.returncode # 0
    \/ f.tags.stdout.kind \in {"empty", "malformed"}
    \/ ~\E i \in 1..Len(f.tags.stdout.root) :
            /\ f.tags.stdout.root[i].TargetTypeValue = "50"
            /\ f.tags.stdout.root[i].Name = "TMDB"
            /\ f.tags.stdout.root[i].String # ""

\* The catalog holds an entry with the file's path.
HasEntry(p) == \E k \in DOMAIN movies : movies[k].path = p

\* The catalog holds an entry with the file's path or with the file's
\* document.
Contributes(p) ==
    \E k \in DOMAIN movies : movies[k].path = p \/ movies[k].tmdb_details.title = p

\* C12: after any scan, a file whose tag extraction failed or whose tags
\* hold no TMDB String under TargetTypeValue 50 contributes no entry to the
\* catalog.
C12_NoEntryWithoutIdentifier ==
    \A p \in DOMAIN directory : NoIdentifier(directory[p]) => ~Contributes(p)

\* A completed scan of a directory with a file whose only TMDB tag is under
\* target 70 and with a file that was indexed.
C12_Witness ==
    /\ scanned
    /\ scan_exc = "none"
    /\ \E p, q \in DOMAIN directory :
          /\ directory[p].tags.returncode = 0
          /\ directory[p].tags.stdout.kind = "xml"
          /\ NoIdentifier(directory[p])
          /\ HasEntry(q)

\* ------------------------------------------------------------------ C13

\* The file carries an attachment of that name.
HasAttachment(f, name) == \E i \in 1..Len(f.attachments) : f.attachments[i].filename = name

\* C13: after any scan, the catalog holds no entry for a file without an
\* attachment named tmdb.json, whether the listing call succeeded without a
\* matching line or exited non-zero, and whatever was enumerated before it.
C13_NoEntryWithoutTmdbJson ==
    \A p \in DOMAIN directory : ~HasAttachment(directory[p], "tmdb.json") => ~HasEntry(p)

\* ------------------------------------------------------------------ C14

\* The file carries an attachment of that name whose extraction succeeds
\* and prints bytes of that kind.
GoodAttachment(f, name, kind) ==
    \E i \in 1..Len(f.attachments) :
        /\ f.attachments[i].filename = name
        /\ f.attachments[i].returncode = 0
        /\ f.attachments[i].kind = kind

\* Nothing fails while the file is indexed: it has an identifier, every
\* listing call exits with 0, its tmdb.json is extracted and is JSON, and
\* in the async variant its cover.jpg is extracted.
Indexable(v, f) ==
    /\ ~NoIdentifier(f)
    /\ f.identify[1] = 0
    /\ GoodAttachment(f, "tmdb.json", "json")
    /\ v = "async" => (f.identify[2] = 0 /\ GoodAttachment(f, "cover.jpg", "jpeg"))

IdentifierOf(f) == tmdb_id(f.tags.stdout.root).text

\* C14: a failure while one file is indexed never aborts the scan: no scan
\* ends in an exception, the failing file is skipped, and every indexable
\* file's identifier is in the catalog.
C14_FailuresNeverAbort ==
    /\ scan_exc = "none"
    /\ scanned =>
          \A p \in DOMAIN directory :
              IF Indexable(variant, directory[p])
              THEN IdentifierOf(directory[p]) \in DOMAIN movies
              ELSE ~HasEntry(p)

\* ------------------------------------------------------------------ C16

\* The indexable files of the directory with identifier k.
Sharing(k) ==
    { p \in DOMAIN directory :
        Indexable(variant, directory[p]) /\ IdentifierOf(directory[p]) = k }

\* The place of a file in the enumeration order of the scan that built the
\* catalog.
Place(p) == CHOOSE i \in 1..Len(order) : order[i] = p

\* The one of those files enumerated last.
LastOf(S) == CHOOSE p \in S : \A q \in S : Place(q) <= Place(p)

\* The entry is made of the file's path and of the file's own document
\* (and cover image), nothing of another file.
EntryOf(e, p) ==
    /\ e.path = p
    /\ e.tmdb_details = Document(p)
    /\ variant = "async" => e.cover_jpeg_data.of = p

\* C16: when several indexable files share an identifier, the catalog a
\* scan builds holds one entry for it, with the path and the metadata of
\* the one enumerated last among them.
C16_LastEnumeratedWins ==
    scanned =>
        \A k \in {"movie/1", "movie/2"} :
            Cardinality(Sharing(k)) >= 2 =>
                /\ k \in DOMAIN movies
                /\ EntryOf(movies[k], LastOf(Sharing(k)))

\* ------------------------------------------------------------------ C17

\* Two catalogs give every key the same descriptive metadata.
SameMetadata(m1, m2) ==
    /\ DOMAIN m1 = DOMAIN m2
    /\ \A k \in DOMAIN m1 : m1[k].tmdb_details = m2[k].tmdb_details

GenreGiven(e) ==
    \E i \in 1..Len(e.tmdb_details.genre_ids) : \E j \in 1..Len(qs.genre_id) :
        /\ IntOk(qs.genre_id[j])
        /\ e.tmdb_details.genre_ids[i] = IntVal(qs.genre_id[j])

\* The entry's language is one of the original_language values given.
LanguageGiven(e) ==
    \E j \in 1..Len(qs.original_language) :
        qs.original_language[j] = e.tmdb_details.original_language

\* How often the document is in the index sent.
Times(d) == Cardinality({ i \in 1..Len(payload) : payload[i] = d })

\* An index request of the threaded variant has been handled: a GET
\* without a Range header.
IndexHandled ==
    /\ variant = "threaded"
    /\ path.route = "index"
    /\ method = "GET"
    /\ ~Truthy(range)
    /\ pc = "done"
    /\ Len(reads) = 1

\* C18: the index of the threaded variant holds the metadata of an entry of
\* the catalog exactly when both filters let it pass (each filter passing
\* when its parameter is absent), and holds it once.
C18_IndexFilters ==
    IndexHandled =>
        \A k \in DOMAIN reads[1] :
            LET e == reads[1][k]
            IN  IF (qs.genre_id = <<>> \/ GenreGiven(e))
                   /\ (qs.original_language = <<>> \/ LanguageGiven(e))
                THEN Times(e.tmdb_details) = 1
                ELSE Times(e.tmdb_details) = 0

\* ------------------------------------------------------------------ C19

\* A request on a per-movie route has been handled, and the identifier it
\* names was a key of the catalog in none of its reads.
UnknownMovieHandled ==
    /\ path.route \in {"download", "attachment"}
    /\ pc = "done"
    /\ Len(reads) >= 1
    /\ \A i \in 1..Len(reads) : path.movie_id \notin DOMAIN reads[i]

\* The identifier followed by " not found".
NamesIdentifier(text, id) ==
    \/ id = "movie/1" /\ text = "movie/1 not found"
    \/ id = "movie/2" /\ text = "movie/2 not found"
    \/ id = "movie/9" /\ text = "movie/9 not found"

Denied == variant = "threaded" /\ client_ip \notin allowed_clients

\* C20: a request of a client outside the allow-list (any client when the
\* list is empty) is answered 403 before a route is entered: the catalog is
\* not read, no file opened, no extractor called, and nothing but the
\* error page is sent.
C20_DeniedBeforeDispatch ==
    Denied =>
        /\ pc \in {"serve", "done"}
        /\ pc = "done" => status = FORBIDDEN
        /\ reads = <<>>
        /\ opens = 0
        /\ extractor_calls = 0
        /\ payload = <<>>
        /\ \A i \in 1..Len(body) : body[i].src = "error"

\* A download of a movie of the catalog asked for with a Range header by a
\* client when the allow-list is empty: answered 403.
C20_Witness ==
    /\ Denied
    /\ allowed_clients = {}
    /\ path.route = "download"
    /\ path.movie_id \in DOMAIN movies
    /\ Truthy(range)
    /\ pc = "done"
    /\ status = FORBIDDEN

\* ------------------------------------------------------------------ C21

\* The step is one of a request being handled: something of the request's
\* progress or of its response changes.  (A scan changes neither.)
RequestStep == << response, serving >>' # << response, serving >>

\* C21: no step of handling a request, whatever the route, the Range header
\* and the outcome, changes the catalog: its keys and its entries are after
\* the step what they were before.
C21_RequestsLeaveCatalog ==
    [][RequestStep => movies' = movies]_vars

\* Requests have been handled to their end over a catalog that is not
\* empty: one refused with 416, one that died of an exception.
C21_Witness ==
    /\ pc = "done"
    /\ DOMAIN movies # {}
    /\ reads # <<>>
    /\ \/ status = REQUESTED_RANGE_NOT_SATISFIABLE
       \/ exc = "KeyError"

\* ------------------------------------------------------------------ C22

\* The two tasks of an async ranged request are running.
Racing == variant = "async" /\ pc \in {"stream_start", "stream_loop"}

\* C22: in the async variant the race between the disconnect listener and
\* the streaming loop always ends: a ranged request whose two tasks run
\* eventually finishes, whether or not a disconnect ever arrives; and once
\* the listener has seen a disconnect the request is finished and nothing
\* more is sent.
C22_RaceEnds ==
    /\ Racing ~> pc = "done"
    /\ [](observed => pc = "done")
    /\ [][observed => body' = body]_vars

\* The stream reached end-of-file with no disconnect: the request is
\* finished, the listener having seen nothing.
C22_Witness ==
    /\ variant = "async"
    /\ pc = "done"
    /\ status = PARTIAL_CONTENT
    /\ ~disconnected
    /\ ~observed
    /\ Len(body) > 1
    /\ ~body[Len(body)].more_body

\* ------------------------------------------------------------------ C23

\* C23: the headers of every 206, whatever the accepted start and the size
\* of the file: Content-Length is not negative, the first position of
\* Content-Range does not exceed its last, and a stream that completes with
\* the client still there has carried Content-Length bytes.
C23_LengthIsBodyLength ==
    status = PARTIAL_CONTENT =>
        /\ HeaderValue(headers, "Content-Length") >= 0
        /\ HeaderValue(headers, "Content-Range")[2]
              <= HeaderValue(headers, "Content-Range")[3]
        /\ (StreamCompleted /\ ~disconnected) =>
              HeaderValue(headers, "Content-Length") = BodyLen(body)

\* ------------------------------------------------------------------ C24

\* C24: after any scan every catalog entry's document (and, in the async
\* variant, its cover image) was extracted from the file the entry names:
\* nothing in an entry is left over from a file enumerated before it.
C24_EntryFromOwnFile ==
    \A k \in DOMAIN movies : EntryOf(movies[k], movies[k].path)

\* ------------------------------------------------------------------ C25

\* The unit and the range part of a Range value, and the two sides of the
\* range part.
UnitOf(v) == IF Contains(v, "=") THEN Split(v, "=")[1] ELSE <<"bytes">>
RangePartOf(v) == IF Contains(v, "=") THEN Split(v, "=")[2] ELSE v
SidesOf(v) == Split(Strip(RangePartOf(v)), "-")

\* The five checks in the order claimed, and what it is for a value to fail
\* each of them, said of the value alone.
CheckOrder == << "unit", "multi", "int", "start", "end" >>

Fails(check, v) ==
    CASE check = "unit"  -> UnitOf(v) # <<"bytes">>
      [] check = "multi" -> Contains(RangePartOf(v), ",")
      [] check = "int"   -> /\ Len(SidesOf(v)) = 2
                            /\ \E i \in 1..2 : SidesOf(v)[i] # <<>> /\ ~IntOk(SidesOf(v)[i])
      [] check = "start" -> Len(SidesOf(v)) = 2 /\ SidesOf(v)[1] = <<>>
      [] check = "end"   -> Len(SidesOf(v)) = 2 /\ SidesOf(v)[2] # <<>>

FailsSome(v) == \E i \in 1..Len(CheckOrder) : Fails(CheckOrder[i], v)

FirstFailing(v) ==
    CheckOrder[CHOOSE i \in 1..Len(CheckOrder) :
                  /\ Fails(CheckOrder[i], v)
                  /\ \A j \in 1..(i - 1) : ~Fails(CheckOrder[j], v)]

\* The reason a variant gives for a failed check: the detail of the JSON
\* body (async), the log line before send_error (threaded).
ReasonOf(check) == IF variant = "async" THEN Detail(check) ELSE LogMessage(check)

BytesValue(tail) == [present |-> TRUE, value |-> <<"bytes", "=">> \o tail]

\* C25: a request rejected with 416 fails at least one of the checks unit,
\* multi-range, integer conversion, missing start, unsupported end, and its
\* reason is that of the first of them, in this order, that it fails, and
\* of no other; one response is sent for it: the 416 with at most its error
\* body, no file bytes, and the handler has ended.  So bytes=-50 is
\* rejected for its missing start (not for its end), bytes=-x for its
\* integer, and items=-,- for its unit.
C25_FirstFailingCheckDecides ==
    /\ status = REQUESTED_RANGE_NOT_SATISFIABLE =>
          /\ Truthy(range)
          /\ FailsSome(range.value)
          /\ reason = ReasonOf(FirstFailing(range.value))
          /\ exc = "none"
          /\ pc = "done"
          /\ Len(body) <= 1
          /\ NoFileBytes(body)
    /\ pc = "done" =>
          /\ range = BytesValue(<<"-", "5", "0">>) =>
                status = REQUESTED_RANGE_NOT_SATISFIABLE /\ reason = ReasonOf("start")
          /\ range = BytesValue(<<"-", "x">>) =>
                status = REQUESTED_RANGE_NOT_SATISFIABLE /\ reason = ReasonOf("int")
          /\ range = [present |-> TRUE, value |-> <<"items", "=", "-", ",", "-">>] =>
                status = REQUESTED_RANGE_NOT_SATISFIABLE /\ reason = ReasonOf("unit")

\* bytes=-50, which fails both the start and the end check, rejected by the
\* async variant for its missing start.
C25_Witness ==
    /\ variant = "async"
    /\ range = BytesValue(<<"-", "5", "0">>)
    /\ Fails("start", range.value)
    /\ Fails("end", range.value)
    /\ pc = "done"
    /\ status = REQUESTED_RANGE_NOT_SATISFIABLE
    /\ reason = "range start required"

\* ------------------------------------------------------------------ C26

\* The async streaming loop is at work or has been: a ranged request of the
\* async variant past its parsing.
AsyncStream ==
    /\ variant = "async"
    /\ Truthy(range)
    /\ ParseRange(range.value).kind = "accept"

\* The last body message sent.
LastMessage == body[Len(body)]

\* C26: in the async streaming loop, whatever the file size and the start
\* offset: no body message precedes the start message, and the start
\* message is sent once; every body message but the last carries chunk_size
\* bytes and more_body true; a stream that is not interrupted ends with the
\* one message whose more_body is false, which is shorter than chunk_size
\* and carries what remains after the full chunks (nothing when the length
\* to send is a multiple of chunk_size, zero included); nothing is sent
\* after that message.
C26_ChunkedToTheLastMessage ==
    /\ [](AsyncStream =>
            /\ body # <<>> => status = PARTIAL_CONTENT
            /\ pc = "stream_start" => status = 0
            /\ \A i \in 1..(Len(body) - 1) :
                  /\ body[i].src = "file"
                  /\ body[i].len = chunk_size
                  /\ body[i].more_body
            /\ (body # <<>> /\ pc # "done") => LastMessage.more_body
            /\ (pc = "done" /\ ~observed) =>
                  /\ Len(body) = (Remaining(StartOffset) \div chunk_size) + 1
                  /\ ~LastMessage.more_body
                  /\ LastMessage.len < chunk_size
                  /\ LastMessage.len = Remaining(StartOffset) % chunk_size)
    /\ [][(AsyncStream /\ status = PARTIAL_CONTENT) =>
             status' = status /\ headers' = headers]_vars
    /\ [][(AsyncStream /\ body # <<>> /\ ~LastMessage.more_body) =>
             body' = body]_vars

\* bytes=0- on a file of exactly two chunks: two full messages, then the
\* empty one that ends the stream.
C26_Witness ==
    /\ variant = "async"
    /\ range = BytesValue(<<"0", "-">>)
    /\ total_size = 2 * chunk_size
    /\ pc = "done"
    /\ ~observed
    /\ Len(body) = 3
    /\ body[2].len = chunk_size /\ body[2].more_body
    /\ body[3].len = 0 /\ ~body[3].more_body

\* ------------------------------------------------------------------ C27

\* C27: a scan that an exception ends part-way leaves the live catalog
\* exactly what it was before that scan started: nothing of the entries
\* built before the failure shows.
C27_AbortedScanLeavesCatalog ==
    [][scan_exc' # "none" => movies' = movies]_vars

\* A scan has been ended by an exception after it had built entries for
\* the files enumerated before the failing one; the live catalog holds none
\* of them.
C27_Witness ==
    /\ scan_exc # "none"
    /\ \E o \in Orders(DOMAIN directory) :
          /\ scan_result(variant, directory, o).exc = scan_exc
          /\ DOMAIN scan_result(variant, directory, o).movies # {}
    /\ movies = NoMovies

====
